---- MODULE Spec2Model ----
(***************************************************************************)
(* log-chew.py: the line scanner that turns a gdb transcript (log.txt)     *)
(* into a list of records (states.json).                                   *)
(*                                                                         *)
(* A line is a string; the scanner's tests on it ('in', split, int(.., 0)) *)
(* are computed on the characters.  Records are Python dicts living on a   *)
(* heap: res holds references, so appending rec twice gives two entries    *)
(* that are the same object.                                               *)
(***************************************************************************)
EXTENDS Integers, Sequences, FiniteSets, TLC

VARIABLES
    line,         \* the loop variable
    state,        \* the position inside the current event, -1 before the first
    rec,          \* the dict the name rec refers to (a heap address)
    heap,         \* the live dicts, by address
    res,          \* the list res, of heap addresses
    status,       \* where the script is: "start", "scanning", "dumped", "aborted"
    states_json,  \* what json.dump wrote
    nobj,         \* history: the dicts created so far; the next address
    hist,         \* history: per live dict, the lines its fields were read from
    ncomplete,    \* history: the events whose third word-dump line was read
    seen,         \* history: the kinds of breakpoint-hit lines read so far
    data,         \* data.split('\n') when the transcript is fixed, <<>> when open
    pos           \* the lines of data the loop has taken

vars ==
    <<line, state, rec, heap, res, status, states_json, nobj, hist, ncomplete, seen,
      data, pos>>

(***************************************************************************)
(* Bounds of the model.                                                    *)
(***************************************************************************)
\* pause-marker lines in one transcript
MaxEvents == 2
\* entries of res
MaxRes == 3

(***************************************************************************)
(* Python's string and list primitives, as the scanner uses them.          *)
(***************************************************************************)
Min(a, b) == IF a < b THEN a ELSE b
Max(a, b) == IF a > b THEN a ELSE b

\* the characters m..n of string s (1-indexed, clamped like a Python slice)
Str(s, m, n) ==
    IF m > n \/ m > Len(s) THEN "" ELSE SubSeq(s, m, Min(n, Len(s)))

\* p in s
Contains(s, p) ==
    \E i \in 1..(Len(s) - Len(p) + 1) : Str(s, i, i + Len(p) - 1) = p

\* s.find(p) + 1 (0 when p does not occur)
RECURSIVE FindFrom(_, _, _)
FindFrom(s, p, i) ==
    IF i + Len(p) - 1 > Len(s) THEN 0
    ELSE IF Str(s, i, i + Len(p) - 1) = p THEN i
    ELSE FindFrom(s, p, i + 1)

\* s.split(sep)
RECURSIVE Split(_, _)
Split(s, sep) ==
    LET i == FindFrom(s, sep, 1) IN
    IF i = 0 THEN <<s>>
    ELSE <<Str(s, 1, i - 1)>> \o Split(Str(s, i + Len(sep), Len(s)), sep)

\* list(reversed(s))
Reversed(s) == [i \in 1..Len(s) |-> s[Len(s) + 1 - i]]

\* s[:n], a negative n counting from the end
SliceTo(s, n) ==
    IF n >= 0 THEN SubSeq(s, 1, Min(n, Len(s)))
    ELSE SubSeq(s, 1, Max(Len(s) + n, 0))

(***************************************************************************)
(* int(text, 0): surrounding whitespace and a sign are dropped, a prefix   *)
(* 0x, 0o or 0b chooses the base, single underscores may separate digits,  *)
(* a decimal literal has no leading zero unless it is zero.                *)
(***************************************************************************)
Whitespace == {" ", "\t"}

DigitVal ==
    [c \in {"0", "1", "2", "3", "4", "5", "6", "7", "8", "9",
            "a", "b", "c", "d", "e", "f", "A", "B", "C", "D", "E", "F"} |->
        CASE c = "0" -> 0 [] c = "1" -> 1 [] c = "2" -> 2 [] c = "3" -> 3
          [] c = "4" -> 4 [] c = "5" -> 5 [] c = "6" -> 6 [] c = "7" -> 7
          [] c = "8" -> 8 [] c = "9" -> 9
          [] c \in {"a", "A"} -> 10 [] c \in {"b", "B"} -> 11
          [] c \in {"c", "C"} -> 12 [] c \in {"d", "D"} -> 13
          [] c \in {"e", "E"} -> 14 [] c \in {"f", "F"} -> 15]

Char(s, i) == Str(s, i, i)

RECURSIVE Strip(_)
Strip(s) ==
    IF Len(s) = 0 THEN s
    ELSE IF Char(s, 1) \in Whitespace THEN Strip(Str(s, 2, Len(s)))
    ELSE IF Char(s, Len(s)) \in Whitespace THEN Strip(Str(s, 1, Len(s) - 1))
    ELSE s

IsDigit(c, base) == c \in DOMAIN DigitVal /\ DigitVal[c] < base

\* digits, single underscores between them (one may follow a base prefix)
DigitsOk(s, base, prefixed) ==
    /\ Len(s) > 0
    /\ \A i \in 1..Len(s) :
          \/ IsDigit(Char(s, i), base)
          \/ /\ Char(s, i) = "_"
             /\ i < Len(s)
             /\ IsDigit(Char(s, i + 1), base)
             /\ (i > 1 \/ prefixed)

RECURSIVE DigitsValue(_, _, _)
DigitsValue(s, base, acc) ==
    IF Len(s) = 0 THEN acc
    ELSE IF Char(s, 1) = "_" THEN DigitsValue(Str(s, 2, Len(s)), base, acc)
    ELSE DigitsValue(Str(s, 2, Len(s)), base, acc * base + DigitVal[Char(s, 1)])

Failed == [ok |-> FALSE, val |-> 0]
Parsed(v) == [ok |-> TRUE, val |-> v]

\* the literal after the sign
Unsigned(s) ==
    LET pre  == Str(s, 1, 2)
        body == Str(s, 3, Len(s))
        base == CASE pre \in {"0x", "0X"} -> 16
                  [] pre \in {"0o", "0O"} -> 8
                  [] pre \in {"0b", "0B"} -> 2
                  [] OTHER -> 10
    IN  IF base # 10
        THEN IF DigitsOk(body, base, TRUE)
             THEN Parsed(DigitsValue(body, base, 0)) ELSE Failed
        ELSE IF ~DigitsOk(s, 10, FALSE) THEN Failed
        ELSE IF Char(s, 1) = "0" /\ DigitsValue(s, 10, 0) # 0 THEN Failed
        ELSE Parsed(DigitsValue(s, 10, 0))

\* int(text, 0); ok = FALSE stands for ValueError
ParseInt(text) ==
    LET s == Strip(text) IN
    IF Len(s) = 0 THEN Failed
    ELSE IF Char(s, 1) = "-"
         THEN LET u == Unsigned(Str(s, 2, Len(s))) IN
              IF u.ok THEN Parsed(0 - u.val) ELSE Failed
    ELSE IF Char(s, 1) = "+" THEN Unsigned(Str(s, 2, Len(s)))
    ELSE Unsigned(s)

\* int(fields[k], 0) with fields 0-indexed; a missing field is IndexError
ParseField(fields, k) ==
    IF k + 1 > Len(fields) THEN Failed ELSE ParseInt(fields[k + 1])

(***************************************************************************)
(* The transcript's lines.  log.txt is an input: each line the loop reads  *)
(* is drawn from an alphabet of gdb output lines.  Addresses and words are *)
(* shortened so that every value fits TLC's 32-bit integers.               *)
(***************************************************************************)
\* a blank line, and the source-location line that follows a marker
NoiseLines == {"", "536\tin ../../../src/libgcc/unwind-dw2.c"}

\* a hit of breakpoint 2 in execute_stack_op, and a hit of it elsewhere
FirstHitLine ==
    "Breakpoint 2, execute_stack_op (op_ptr=0x40025d) at unwind-dw2.c:536"
MarkerLines == {FirstHitLine, "Breakpoint 2, main () at test.c:3"}

\* x/xb op_ptr
AddressLines == {"0x40025d:\t0x08"}

\* print/x stack_elt, for raw counters 2, 8, 0 and 1
ScalarLines == {"$3 = 0x2", "$3 = 0x8", "$3 = 0x0", "$3 = 0x1"}

\* print/x stack_elt, for the raw counters 3 to 7, and negative ones
MoreScalarLines ==
    {"$3 = 0x3", "$3 = 0x4", "$3 = 0x5", "$3 = 0x6", "$3 = 0x7",
     "$3 = -4", "$3 = -5"}

\* x/6gx &stack[stack_elt-6]: the three lines of one dump
WordLine1 == "0x7fde90:\t0x000000000000000a\t0x000000000000000b"
WordLine2 == "0x7fdea0:\t0x000000000000000c\t0x000000000000000d"
WordLine3 == "0x7fdeb0:\t0x000000000000000e\t0x000000000000000f"

\* the lines of a transcript of several events
Lines ==
    NoiseLines \cup MarkerLines \cup AddressLines \cup ScalarLines
        \cup {WordLine1}

\* the lines of a transcript of one event
SingleLines ==
    NoiseLines \cup {FirstHitLine} \cup AddressLines \cup ScalarLines
        \cup MoreScalarLines \cup {WordLine1, WordLine2, WordLine3}

AllLines == Lines \cup SingleLines

(***************************************************************************)
(* The program.                                                            *)
(***************************************************************************)
\* a dict with key k set to v
Put(d, k, v) == (k :> v) @@ d

\* the heap without object i
Drop(h, i) == [j \in DOMAIN h \ {i} |-> h[j]]

\* the heap once the name rec no longer refers to object i: CPython frees an
\* object that nothing refers to
Release(h, i) == IF \E k \in 1..Len(res) : res[k] = i THEN h ELSE Drop(h, i)

\* 'Breakpoint 2, execute_stack_op' in line, for each line of the alphabet
FirstHitOf == [l \in AllLines |-> Contains(l, "Breakpoint 2, execute_stack_op")]

\* 'Breakpoint 2' in line
HitOf == [l \in AllLines |-> Contains(l, "Breakpoint 2")]

\* int(line.split(':')[0], 0)
PcOf == [l \in AllLines |-> ParseField(Split(l, ":"), 0)]

\* int(line.split(' = ')[1], 0)
StackSzOf == [l \in AllLines |-> ParseField(Split(l, " = "), 1)]

\* vals = line.split(':')[1].split('\t'), then int(vals[1], 0), int(vals[2], 0)
ValsOf ==
    [l \in AllLines |->
        LET parts == Split(l, ":")
            vals  == IF Len(parts) >= 2 THEN Split(parts[2], "\t") ELSE <<>>
        IN  <<ParseField(vals, 1), ParseField(vals, 2)>>]

\* mutant: the scan to the first hit tests the shorter text
NotAnyHit(l) == ~HitOf[l]

NotFirstHit(l) == ~FirstHitOf[l]

\* mutant: every test uses the text of the first hit
IsFirstHit(l) == FirstHitOf[l]

IsHit(l) == HitOf[l]

\* mutant: the address is stored as printed
PcUncorrected(l) == PcOf[l].val

\* rec['pc']
Pc(l) == PcOf[l].val - 1

\* rec['stack_sz']
StackSz(l) == StackSzOf[l].val - 1

\* the kinds of hit lines read once l is read
Kinds(l) ==
    seen \cup (IF FirstHitOf[l] THEN {"first"} ELSE IF HitOf[l] THEN {"other"} ELSE {})

\* the transcript is left open: any line may come next.  split never gives
\* an empty list, so <<>> is no fixed transcript
Streamed == data = <<>>

\* l is the line the for loop takes next
Offered(l) == Streamed \/ (pos < Len(data) /\ l = data[pos + 1])

\* mutant: the loop stays on the line it has
AdvanceNot == UNCHANGED <<data, pos>>

\* the for loop moves to the next line; positions count on a fixed transcript
Advance ==
    /\ pos' = IF Streamed THEN pos ELSE pos + 1
    /\ data' = data

\* the loop is running and line l is not skipped by the scan to the first hit
Reads(l) ==
    /\ status \in {"start", "scanning"}
    /\ Offered(l)
    /\ ~(state = -1 /\ NotFirstHit(l))

\* mutant: a line that does not parse is skipped
RaiseSkipped(l) ==
    /\ line' = l
    /\ seen' = Kinds(l)
    /\ status' = "scanning"
    /\ Advance
    /\ UNCHANGED <<state, rec, res, states_json, nobj, ncomplete>>

\* an uncaught ValueError or IndexError ends the script
Raise(l) ==
    /\ line' = l
    /\ seen' = Kinds(l)
    /\ status' = "aborted"
    /\ Advance
    /\ UNCHANGED <<state, rec, res, states_json, nobj, ncomplete>>

\* the next loop iteration begins
Continue(l) ==
    /\ line' = l
    /\ seen' = Kinds(l)
    /\ status' = "scanning"
    /\ Advance
    /\ UNCHANGED states_json

\* the event's lines so far, with l added
Seen(l) == [hist EXCEPT ![rec] = Append(@, l)]

\* the script's variables before the loop
Start ==
    /\ line = ""
    /\ state = -1
    /\ rec = 0
    /\ heap = (0 :> <<>>)
    /\ res = <<>>
    /\ status = "start"
    /\ states_json = <<>>
    /\ nobj = 1
    /\ hist = (0 :> <<>>)
    /\ ncomplete = 0
    /\ seen = {}
    /\ pos = 0

\* the transcript is open
Init == Start /\ data = <<>>

\* scan to the first bp hit
ScanToFirst(l) ==
    /\ status \in {"start", "scanning"}
    /\ Offered(l)
    /\ state = -1 /\ NotFirstHit(l)
    /\ Continue(l)
    /\ UNCHANGED <<state, rec, heap, res, nobj, hist, ncomplete>>

\* a hit starts a new record
StartRecord(l) ==
    /\ Reads(l)
    /\ IsHit(l)
    /\ nobj <= MaxEvents
    /\ rec' = nobj
    /\ nobj' = nobj + 1
    /\ heap' = (nobj :> Put(<<>>, "stack", <<>>)) @@ Release(heap, rec)
    /\ hist' = (nobj :> <<>>) @@ Release(hist, rec)
    /\ state' = 0
    /\ Continue(l)
    /\ UNCHANGED <<res, ncomplete>>

\* mutant: the line after the skipped one is skipped too
SkipLinenumberTwice(l) ==
    /\ Reads(l)
    /\ ~IsHit(l)
    /\ state = 0
    /\ state' = state + 2
    /\ Continue(l)
    /\ UNCHANGED <<rec, heap, res, nobj, hist, ncomplete>>

\* skip linenumber
SkipLinenumber(l) ==
    /\ Reads(l)
    /\ ~IsHit(l)
    /\ state = 0
    /\ state' = state + 1
    /\ Continue(l)
    /\ UNCHANGED <<rec, heap, res, nobj, hist, ncomplete>>

\* get pc
GetPc(l) ==
    /\ Reads(l)
    /\ ~IsHit(l)
    /\ state = 1
    /\ LET v == PcOf[l] IN
       IF v.ok
       THEN /\ heap' = [heap EXCEPT ![rec] = Put(@, "pc", Pc(l))]
            /\ hist' = Seen(l)
            /\ state' = state + 1
            /\ Continue(l)
            /\ UNCHANGED <<rec, res, nobj, ncomplete>>
       ELSE Raise(l) /\ UNCHANGED <<heap, hist>>

\* get stack size
GetStackSize(l) ==
    /\ Reads(l)
    /\ ~IsHit(l)
    /\ state = 2
    /\ LET v == StackSzOf[l] IN
       IF v.ok
       THEN /\ heap' = [heap EXCEPT ![rec] = Put(@, "stack_sz", StackSz(l))]
            /\ hist' = Seen(l)
            /\ state' = state + 1
            /\ Continue(l)
            /\ UNCHANGED <<rec, res, nobj, ncomplete>>
       ELSE Raise(l) /\ UNCHANGED <<heap, hist>>

\* mutant: the two words of a line are appended in the other order
GetStackSwapped(l) ==
    /\ Reads(l)
    /\ ~IsHit(l)
    /\ state \in {3, 4, 5}
    /\ LET v1    == ValsOf[l][1]
           v2    == ValsOf[l][2]
           one   == Append(heap[rec].stack, v2.val)
       IN  IF v1.ok /\ v2.ok
           THEN /\ heap' = [heap EXCEPT ![rec] = Put(@, "stack", Append(one, v1.val))]
                /\ hist' = Seen(l)
                /\ state' = state + 1
                /\ ncomplete' = IF state = 5 THEN ncomplete + 1 ELSE ncomplete
                /\ Continue(l)
                /\ UNCHANGED <<rec, res, nobj>>
           ELSE /\ heap' = IF v1.ok THEN [heap EXCEPT ![rec] = Put(@, "stack", one)]
                           ELSE heap
                /\ Raise(l)
                /\ UNCHANGED hist

\* get the first 4 stack elements
GetStack(l) ==
    /\ Reads(l)
    /\ ~IsHit(l)
    /\ state \in {3, 4, 5}
    /\ LET v1    == ValsOf[l][1]
           v2    == ValsOf[l][2]
           one   == Append(heap[rec].stack, v1.val)
       IN  IF v1.ok /\ v2.ok
           THEN /\ heap' = [heap EXCEPT ![rec] = Put(@, "stack", Append(one, v2.val))]
                /\ hist' = Seen(l)
                /\ state' = state + 1
                /\ ncomplete' = IF state = 5 THEN ncomplete + 1 ELSE ncomplete
                /\ Continue(l)
                /\ UNCHANGED <<rec, res, nobj>>
           ELSE /\ heap' = IF v1.ok THEN [heap EXCEPT ![rec] = Put(@, "stack", one)]
                           ELSE heap
                /\ Raise(l)
                /\ UNCHANGED hist

\* mutant: the trimmed slice is not reversed back
TrimUnreversed(stack, stack_sz) ==
    LET r == Reversed(stack) IN
    IF Len(r) > stack_sz THEN SliceTo(r, stack_sz)
    ELSE Reversed(SliceTo(r, 5))

\* mutant: the deep-stack branch slices the list as read
TrimFirstFive(stack, stack_sz) ==
    LET r == Reversed(stack) IN
    IF Len(r) > stack_sz THEN Reversed(SliceTo(r, stack_sz))
    ELSE Reversed(SliceTo(stack, 5))

\* mutant: the deep-stack branch does not slice
TrimUncapped(stack, stack_sz) ==
    LET r == Reversed(stack) IN
    IF Len(r) > stack_sz THEN Reversed(SliceTo(r, stack_sz))
    ELSE Reversed(r)

\* trim the stack if needed
Trim(stack, stack_sz) ==
    LET r == Reversed(stack) IN
    IF Len(r) > stack_sz THEN Reversed(SliceTo(r, stack_sz))
    ELSE Reversed(SliceTo(r, 5))

\* mutant: the record is put in front
CommitFront(r, x) == <<x>> \o r

\* res.append(rec)
Commit(r, x) == Append(r, x)

\* mutant: the commit does not wait for the third word-dump line
AtCommitEarly == state >= 5

\* if state == 6
AtCommit == state = 6

\* trim and commit
TrimAndCommit(l) ==
    /\ Reads(l)
    /\ ~IsHit(l)
    /\ AtCommit
    /\ Len(res) < MaxRes
    /\ heap' = [heap EXCEPT ![rec] =
                   Put(@, "stack", Trim(@.stack, @.stack_sz))]
    /\ res' = Commit(res, rec)
    /\ Continue(l)
    /\ UNCHANGED <<state, rec, nobj, hist, ncomplete>>

\* one iteration of: for line in data.split('\n')
Step(l) ==
    \/ ScanToFirst(l)
    \/ StartRecord(l)
    \/ SkipLinenumber(l)
    \/ GetPc(l)
    \/ GetStackSize(l)
    \/ GetStack(l)
    \/ TrimAndCommit(l)

\* the loop ends; json.dump(res, h) writes every entry's dict as it is now
EndOfInput ==
    /\ status = "scanning"
    /\ Streamed \/ pos = Len(data)
    /\ status' = "dumped"
    /\ states_json' = [i \in 1..Len(res) |-> heap[res[i]]]
    /\ UNCHANGED <<line, state, rec, heap, res, nobj, hist, ncomplete, seen>>
    /\ UNCHANGED <<data, pos>>

Next == (\E l \in Lines : Step(l)) \/ EndOfInput

Spec == Init /\ [][Next]_vars

\* the only hit of a transcript of one event: the one that ends the scan to
\* the first hit
FirstRecord(l) == state = -1 /\ StartRecord(l)

\* one iteration of the loop on a transcript of one event
SingleStep(l) ==
    \/ ScanToFirst(l)
    \/ FirstRecord(l)
    \/ SkipLinenumber(l)
    \/ GetPc(l)
    \/ GetStackSize(l)
    \/ GetStack(l)
    \/ TrimAndCommit(l)

NextSingle == (\E l \in SingleLines : SingleStep(l)) \/ EndOfInput

SpecSingle == Init /\ [][NextSingle]_vars

(***************************************************************************)
(* Fixed transcripts: data is known before the loop starts.  A transcript  *)
(* is a prefix of one event followed by further lines, with one line       *)
(* replaced by any line.  The first commit needs seven lines before it and *)
(* every commit takes a line, so no transcript has more than MaxRes        *)
(* commits.                                                                *)
(***************************************************************************)
\* the lines of one event with stack size line s
Event(s) ==
    <<FirstHitLine, "536\tin ../../../src/libgcc/unwind-dw2.c", "0x40025d:\t0x08",
      s, WordLine1, WordLine1, WordLine1>>

\* n empty lines
Blank(n) == [i \in 1..n |-> ""]

\* the transcripts before a line is replaced
Bases ==
    {Event(s) \o Blank(MaxRes) : s \in ScalarLines}
        \cup {<<"">> \o Event(s) \o Blank(MaxRes - 1) : s \in ScalarLines}

\* the number of hit lines of d
Hits(d) == Cardinality({p \in 1..Len(d) : HitOf[d[p]]})

Transcripts ==
    {d \in {SubSeq([b EXCEPT ![p] = l], 1, n) :
                b \in Bases, p \in 1..(Len(Event("")) + MaxRes), l \in Lines,
                n \in 1..(Len(Event("")) + MaxRes)} :
        Hits(d) <= MaxEvents}

InitData == Start /\ data \in Transcripts

\* the interpreter runs the loop and the dump as long as there is a step
SpecData == InitData /\ [][Next]_vars /\ WF_vars(Next)

(***************************************************************************)
(* What the claims are stated on.                                          *)
(***************************************************************************)
\* the two words a word-dump line carries
WordsOf(l) == <<ValsOf[l][1].val, ValsOf[l][2].val>>

\* the raw window W[0..5] of dict i: the words of its three word-dump lines
Raw(i) == WordsOf(hist[i][3]) \o WordsOf(hist[i][4]) \o WordsOf(hist[i][5])

\* the records of the output, as they are now
Records == [k \in 1..Len(res) |-> heap[res[k]]]

\* the output was written and is the list res
Written == status = "dumped" => states_json = Records

\* the dump happened on a transcript whose hits are all hits in execute_stack_op
DumpedPlain == status = "dumped" /\ "other" \notin seen

(***************************************************************************)
(* C1 (refuted by the code): a transcript of N complete events, with any   *)
(* non-hit lines or none between them, and a last event cut before its     *)
(* third word-dump line, gives exactly N records.                          *)
(***************************************************************************)
C1_ExactlyNRecords ==
    (/\ DumpedPlain
     /\ nobj >= 2
     /\ state \in 0..5
     /\ ncomplete = nobj - 2)
    => Len(states_json) = ncomplete

(***************************************************************************)
(* C2: in a transcript of one event with reportedDepth d, 0 <= d < 6, the  *)
(* record's stack has length d and is the last d words of the raw window,  *)
(* in reading order.                                                       *)
(***************************************************************************)
C2_LastDWords ==
    /\ Written
    /\ \A k \in 1..Len(res) :
          LET r == heap[res[k]] IN
          r.stack_sz \in 0..5 =>
              /\ Len(r.stack) = r.stack_sz
              /\ r.stack = SubSeq(Raw(res[k]), 7 - r.stack_sz, 6)

C2_Witness ==
    /\ status = "dumped"
    /\ Len(states_json) = 1
    /\ states_json[1].stack_sz = 1
    /\ Raw(res[1]) = <<10, 11, 12, 13, 14, 15>>
    /\ states_json[1].stack = <<15>>

(***************************************************************************)
(* C3 as stated (refuted): with reportedDepth >= 6 the record's stack is   *)
(* the first 5 raw words in reversed reading order.                        *)
(***************************************************************************)
C3_FirstFiveReversed ==
    \A k \in 1..Len(res) :
        LET r == heap[res[k]] IN
        r.stack_sz >= 6 => r.stack = Reversed(SubSeq(Raw(res[k]), 1, 5))

(***************************************************************************)
(* C3 as amended: with reportedDepth >= 6 the record's stack has length 5  *)
(* and is the last 5 raw words in reading order, W[1..5].                  *)
(***************************************************************************)
C3_LastFiveInOrder ==
    /\ Written
    /\ \A k \in 1..Len(res) :
          LET r == heap[res[k]] IN
          r.stack_sz >= 6 =>
              /\ Len(r.stack) = 5
              /\ r.stack = SubSeq(Raw(res[k]), 2, 6)

C3_Witness ==
    /\ status = "dumped"
    /\ Len(states_json) = 1
    /\ states_json[1].stack_sz = 7
    /\ Raw(res[1]) = <<10, 11, 12, 13, 14, 15>>
    /\ states_json[1].stack = <<11, 12, 13, 14, 15>>

(***************************************************************************)
(* C4 (refuted by the code): a record whose reportedDepth is <= 0 has an   *)
(* empty stack.                                                            *)
(***************************************************************************)
C4_EmptyWhenNonPositive ==
    \A k \in 1..Len(states_json) :
        states_json[k].stack_sz <= 0 => states_json[k].stack = <<>>

(***************************************************************************)
(* C5: every record's pc is the integer before the first ':' of its        *)
(* address line minus 1, and its stack_sz the integer after ' = ' on its   *)
(* scalar line minus 1; '0x40025d: 0x08' gives 0x40025c, '$3 = 0x2' gives 1.*)
(***************************************************************************)
\* the integer before the first ':' of each line (0 when there is none)
PrintedAddress == [l \in AllLines |-> ParseInt(Split(l, ":")[1]).val]

\* the integer after the first ' = ' of each line (0 when there is none)
PrintedCounter ==
    [l \in AllLines |->
        LET f == Split(l, " = ") IN
        IF Len(f) >= 2 THEN ParseInt(f[2]).val ELSE 0]

C5_FieldsMinusOne ==
    /\ Written
    /\ \A k \in 1..Len(res) :
          LET r == heap[res[k]]
              a == hist[res[k]][1]
              c == hist[res[k]][2]
          IN  /\ r.pc = PrintedAddress[a] - 1
              /\ r.stack_sz = PrintedCounter[c] - 1
              /\ a = "0x40025d:\t0x08" => r.pc = 4194908
              /\ c = "$3 = 0x2" => r.stack_sz = 1

C5_Witness ==
    /\ status = "dumped"
    /\ \E k \in 1..Len(states_json) :
          /\ hist[res[k]][1] = "0x40025d:\t0x08"
          /\ hist[res[k]][2] = "$3 = 0x2"
          /\ states_json[k].pc = 4194908
          /\ states_json[k].stack_sz = 1

(***************************************************************************)
(* C6: a transcript with no line that holds the text of the first hit      *)
(* ends without error and gives no record.                                 *)
(***************************************************************************)
C6_NoHitNoRecord ==
    "first" \notin seen =>
        /\ status # "aborted"
        /\ res = <<>>
        /\ status = "dumped" => states_json = <<>>

C6_Witness ==
    /\ status = "dumped"
    /\ seen = {"other"}
    /\ line \in AddressLines
    /\ states_json = <<>>

(***************************************************************************)
(* C7: the output is ordered by event position: an earlier entry was built *)
(* from an event that is not later in the transcript.                      *)
(***************************************************************************)
C7_OrderedByEvent ==
    /\ Written
    /\ \A j, k \in 1..Len(res) : j < k => res[j] <= res[k]

C7_Witness ==
    /\ status = "dumped"
    /\ \E j, k \in 1..Len(res) : j < k /\ res[j] < res[k]

(***************************************************************************)
(* C8: a record is appended only when the address line, the scalar line    *)
(* and three word-dump lines of its event were read, its stack holding 6   *)
(* words when it is first trimmed; an unfinished event appends nothing.    *)
(***************************************************************************)
C8_CommitOnlyComplete ==
    [][res' # res =>
          /\ state = 6
          /\ res' = Append(res, rec)
          /\ Len(hist[rec]) = 5
          /\ Len(Raw(rec)) = 6
          /\ (\A k \in 1..Len(res) : res[k] # rec) => Len(heap[rec].stack) = 6]_vars

\* a record is out, and an earlier event that was cut short gave none
C8_Witness ==
    /\ status = "dumped"
    /\ Len(states_json) >= 1
    /\ ncomplete = 1
    /\ nobj = 3

(***************************************************************************)
(* C9: a line in the address, scalar or word-dump position that carries no *)
(* parseable integer ends the scan there, and nothing is written, whatever *)
(* was appended to res before.                                             *)
(***************************************************************************)
Malformed(l, st) ==
    \/ st = 1 /\ ~PcOf[l].ok
    \/ st = 2 /\ ~StackSzOf[l].ok
    \/ st \in {3, 4, 5} /\ ~(ValsOf[l][1].ok /\ ValsOf[l][2].ok)

C9_MalformedIsFatal ==
    [][/\ status # "aborted"
       /\ (/\ status' # "dumped"
           /\ ~IsHit(line')
           /\ Malformed(line', state))
          => (status' = "aborted" /\ states_json' = <<>>)]_vars

C9_Witness ==
    /\ status = "aborted"
    /\ Len(res) >= 1
    /\ states_json = <<>>

(***************************************************************************)
(* C10: every record of the output has a stack of at most 5 words,         *)
(* whatever its reportedDepth.                                             *)
(***************************************************************************)
C10_AtMostFiveWords ==
    /\ Written
    /\ \A k \in 1..Len(res) : Len(heap[res[k]].stack) <= 5

C10_Witness ==
    /\ status = "dumped"
    /\ \E j, k \in 1..Len(states_json) :
          /\ states_json[j].stack_sz < 0
          /\ Len(states_json[j].stack) = 5
          /\ states_json[k].stack_sz >= 6
          /\ Len(states_json[k].stack) = 5

(***************************************************************************)
(* C11 (refuted by the code): a record that was appended does not change   *)
(* while later lines are read and no entry is removed: the output always   *)
(* extends the earlier output.                                             *)
(***************************************************************************)
IsPrefix(s, t) == Len(s) <= Len(t) /\ SubSeq(t, 1, Len(s)) = s

C11_OutputOnlyGrows == [][IsPrefix(Records, Records')]_vars

(***************************************************************************)
(* C12 (refuted by the code): trimming and appending read no line: once    *)
(* the third word-dump line of an event is read, its record is in the      *)
(* output.                                                                 *)
(***************************************************************************)
C12_CommittedWithThirdLine ==
    (state = 6 /\ status # "aborted") => \E k \in 1..Len(res) : res[k] = rec

(***************************************************************************)
(* C13 (refuted by the code): after a record is appended the lines without *)
(* a hit are ignored, so an event gives at most one record.                *)
(***************************************************************************)
C13_AtMostOneRecordPerEvent ==
    \A j, k \in 1..Len(res) : res[j] = res[k] => j = k

(***************************************************************************)
(* C14 as stated (refuted): one literal decides throughout whether a line  *)
(* is a hit: a line starts a record after the first event only if it would *)
(* also end the scan to the first hit, and the other way round.            *)
(***************************************************************************)
\* a step of the loop body: a line was read
ReadStep == status \in {"start", "scanning"} /\ status' # "dumped"

\* the step started a record
StartsRecord == nobj' # nobj

C14_OneLiteral ==
    [][ReadStep => (StartsRecord <=> FirstHitOf[line'])]_vars

(***************************************************************************)
(* C14 as amended: until the first record is started a line is a hit when  *)
(* it holds 'Breakpoint 2, execute_stack_op'; from then on when it holds   *)
(* 'Breakpoint 2'.  A line with only the shorter text is skipped before    *)
(* the first event and starts a record after it.                           *)
(***************************************************************************)
C14_TwoLiterals ==
    [][ReadStep =>
          (StartsRecord <=>
              IF state = -1 THEN FirstHitOf[line'] ELSE HitOf[line'])]_vars

\* after a record of the first event, a line with only the shorter text
\* has started the second
C14_Witness ==
    /\ status = "scanning"
    /\ state = 0
    /\ HitOf[line] /\ ~FirstHitOf[line]
    /\ rec = 2
    /\ res = <<1>>

(***************************************************************************)
(* C15 as stated (refuted): the line after a hit line is dropped whatever  *)
(* it holds, a hit included, and the line after it is read as the address  *)
(* line.                                                                   *)
(***************************************************************************)
\* the line read in state 0 is dropped: no record is started, nothing is
\* stored, and the next line is in the address position
Dropped == state' = 1 /\ UNCHANGED <<rec, heap, res, nobj>>

\* the line read in state 1 is read as the address line
ReadAsAddress ==
    IF PcOf[line'].ok
    THEN /\ state' = 2
         /\ heap'[rec].pc = PrintedAddress[line'] - 1
         /\ UNCHANGED <<rec, res, nobj>>
    ELSE status' = "aborted"

C15_NextLineDropped ==
    [][/\ (ReadStep /\ state = 0) => Dropped
       /\ (ReadStep /\ state = 1) => ReadAsAddress]_vars

(***************************************************************************)
(* C15 as amended: the line after a hit line is dropped whatever it holds, *)
(* unless it holds 'Breakpoint 2': then it starts a new record and the     *)
(* line after it is the one dropped.  The line after the dropped one, if   *)
(* it holds no 'Breakpoint 2', is read as the address line.                *)
(***************************************************************************)
\* the line read is a hit: the event starts over
Restarted == state' = 0 /\ rec' = nobj /\ nobj' = nobj + 1 /\ res' = res

C15_NextLineDroppedUnlessHit ==
    [][/\ (ReadStep /\ state = 0) =>
              IF HitOf[line'] THEN Restarted ELSE Dropped
       /\ (ReadStep /\ state = 1) =>
              IF HitOf[line'] THEN Restarted ELSE ReadAsAddress]_vars

\* a line that has the shape of an address line was dropped after the hit
C15_Witness ==
    /\ status = "scanning"
    /\ state = 1
    /\ line \in AddressLines
    /\ "pc" \notin DOMAIN heap[rec]

(***************************************************************************)
(* C16: in an event that no hit line cuts short, the k-th word-dump line   *)
(* (k = 1, 2, 3) appends its 2nd and 3rd tab-separated fields in printed   *)
(* order, so the raw buffer holds 2k words after it and 6 words, in the    *)
(* order of the transcript, when the record is first trimmed.              *)
(***************************************************************************)
\* the 2nd and 3rd tab-separated fields of a line, as numbers
DumpWords ==
    [l \in AllLines |->
        LET f == Split(l, "\t")
        IN  IF Len(f) >= 3
            THEN <<ParseInt(f[2]).val, ParseInt(f[3]).val>>
            ELSE <<>>]

\* the words of the first k word-dump lines of dict i, in transcript order
RECURSIVE Dumped(_, _)
Dumped(i, k) ==
    IF k = 0 THEN <<>> ELSE Dumped(i, k - 1) \o DumpWords[hist[i][2 + k]]

\* dict i was not trimmed yet
Untrimmed(i) == \A k \in 1..Len(res) : res[k] # i

Reapplied == res' # res /\ ~Untrimmed(rec)

\* s without its first n words
DropFirst(s, n) == SubSeq(s, Min(Len(s), n) + 1, Len(s))

C18_TrimIdempotent ==
    [][Reapplied =>
          LET d == heap[rec].stack_sz
              s == heap[rec].stack
          IN  /\ rec' = rec
              /\ heap'[rec].stack = IF d >= 0 THEN s ELSE DropFirst(s, -d)]_vars

\* a record of three words was trimmed a second time
C18_Witness ==
    /\ status = "scanning"
    /\ res = <<1, 1>>
    /\ heap[1].stack_sz = 3
    /\ heap[1].stack = <<13, 14, 15>>

(***************************************************************************)
(* C17: on a fixed transcript whose lines all parse the scan ends, having  *)
(* taken every line once and in order; in every state at most one branch   *)
(* of the script can run, and a branch assigns every variable from the     *)
(* state and the line, so the state after the last line is a function of   *)
(* the lines.                                                              *)
(***************************************************************************)
\* 1 for a branch that can run, 0 for one that cannot
Count(canRun) == IF canRun THEN 1 ELSE 0

\* the number of branches of the script that can run
Branches ==
    Count(ENABLED (\E l \in Lines : ScanToFirst(l)))
        + Count(ENABLED (\E l \in Lines : StartRecord(l)))
        + Count(ENABLED (\E l \in Lines : SkipLinenumber(l)))
        + Count(ENABLED (\E l \in Lines : GetPc(l)))
        + Count(ENABLED (\E l \in Lines : GetStackSize(l)))
        + Count(ENABLED (\E l \in Lines : GetStack(l)))
        + Count(ENABLED (\E l \in Lines : TrimAndCommit(l)))
        + Count(ENABLED EndOfInput)

\* at most one branch can run, and one can until the script is over
OneBranch ==
    Branches = IF status \in {"dumped", "aborted"} THEN 0 ELSE 1

\* a line is taken: it is the next one of the transcript, and the dump comes
\* only after the last one
SinglePass ==
    /\ data' = data
    /\ ReadStep => (pos' = pos + 1 /\ line' = data[pos'])
    /\ (status # "dumped" /\ status' = "dumped") => pos = Len(data)
    /\ ~ReadStep => pos' = pos

\* the loop is over and every line was taken
Ended == status = "dumped" /\ pos = Len(data)

C17_SinglePassTerminates ==
    /\ []OneBranch
    /\ [][SinglePass]_vars
    /\ <>(Ended \/ status = "aborted")

\* a transcript of two events was scanned to its end
C17_Witness ==
    /\ Ended
    /\ Len(data) = Len(Event("")) + MaxRes
    /\ nobj = 3
    /\ Len(res) = 2

====
